---- MODULE Spec2Model ----
(***************************************************************************)
(* is-my-node-vulnerable (src/index.js): the verdict flow (main), the      *)
(* three exported checks, and the on-disk cache of the vulnerability index *)
(* (.etag and core.json) with its HEAD probe and conditional download.     *)
(***************************************************************************)
EXTENDS Integers, Sequences, FiniteSets, TLC

(* ------------------------------ bounds -------------------------------- *)
\* versions are major.minor.patch with major in 1..MaxMajor etc.
MaxMajor == 2
MaxMinor == 1
MaxPatch == 1
\* entries of one index document
MaxEntries == 2
\* freshness tokens the remote publishes over time (1..MaxToken)
MaxToken == 2
\* process invocations sharing the cache files
MaxRuns == 2
\* calls of the exported functions within one process
MaxCalls == 2
\* clock values and end dates are in 0..MaxTime
MaxTime == 2

(* ------------------------- versions and ranges ------------------------ *)
\* A version string: valid says whether semver's parse accepts it.
Ver(ma, mi, pa) == [valid |-> TRUE, major |-> ma, minor |-> mi, patch |-> pa]
InvalidVersion == [valid |-> FALSE, major |-> 0, minor |-> 0, patch |-> 0]
ValidVersions ==
  {Ver(ma, mi, pa) : ma \in 1..MaxMajor, mi \in 0..MaxMinor, pa \in 0..MaxPatch}
Versions == ValidVersions \cup {InvalidVersion}
Majors == 1..MaxMajor

\* semver precedence of two valid versions: -1, 0, 1
compare(a, b) ==
  IF a.major # b.major THEN (IF a.major < b.major THEN -1 ELSE 1)
  ELSE IF a.minor # b.minor THEN (IF a.minor < b.minor THEN -1 ELSE 1)
  ELSE IF a.patch # b.patch THEN (IF a.patch < b.patch THEN -1 ELSE 1)
  ELSE 0

\* one comparator of a range: operator and operand version
Cmp(op, v) == [op |-> op, v |-> v]
testComparator(v, c) ==
  CASE c.op = ">=" -> compare(v, c.v) >= 0
    [] c.op = ">"  -> compare(v, c.v) > 0
    [] c.op = "<=" -> compare(v, c.v) <= 0
    [] c.op = "<"  -> compare(v, c.v) < 0
    [] OTHER       -> compare(v, c.v) = 0

\* A range expression: ok says whether semver's Range accepts the string;
\* sets is the || list of comparator sets (each a conjunction).
MalformedRange == [ok |-> FALSE, sets |-> << >>]
\* ">=1.0.0 <1.1.0"
RangeA == [ok |-> TRUE,
           sets |-> << <<Cmp(">=", Ver(1, 0, 0)), Cmp("<", Ver(1, 1, 0))>> >>]
\* "<=1.0.0 || >1.0.1"
RangeB == [ok |-> TRUE,
           sets |-> << <<Cmp("<=", Ver(1, 0, 0))>>, <<Cmp(">", Ver(1, 0, 1))>> >>]
\* "1.0.1 || >=2.0.0"
RangeC == [ok |-> TRUE,
           sets |-> << <<Cmp("=", Ver(1, 0, 1))>>, <<Cmp(">=", Ver(2, 0, 0))>> >>]
Ranges == {RangeA, RangeB, MalformedRange}

\* semver/functions/satisfies: false when the range does not parse, false
\* when the version does not parse, else some comparator set matches wholly.
satisfies(version, range) ==
  IF ~range.ok THEN FALSE
  ELSE IF ~version.valid THEN FALSE
  ELSE \E i \in 1..Len(range.sets) :
          \A j \in 1..Len(range.sets[i]) : testComparator(version, range.sets[i][j])

(* ----------------------- the vulnerability index ---------------------- *)
\* A property key of the index document: isIndex for an integer-like key
\* ("1", "2", ...), otherwise a plain name.
Key(isIndex, id) == [isIndex |-> isIndex, id |-> id]
Keys == {Key(TRUE, 1), Key(TRUE, 2), Key(FALSE, 1)}
Cves == {"CVE-A", "CVE-B"}
Entry(k, cve, vulnerable, patched) ==
  [key |-> k, cve |-> cve, vulnerable |-> vulnerable, patched |-> patched]
Entries ==
  {Entry(k, c, vr, pr) : k \in Keys, c \in Cves, vr \in Ranges, pr \in Ranges}

\* An index document: its entries in the order they appear in the text,
\* with pairwise different keys.
DistinctKeys(data) ==
  \A i, j \in 1..Len(data) : data[i].key = data[j].key => i = j
Indexes ==
  {d \in UNION {[1..n -> Entries] : n \in 0..MaxEntries} : DistinctKeys(d)}

\* ascending sequence of a finite set of integers
RECURSIVE ascending(_)
ascending(S) ==
  IF S = {} THEN << >>
  ELSE LET m == CHOOSE x \in S : \A y \in S : x <= y
       IN <<m>> \o ascending(S \ {m})

\* variant: every key is enumerated in insertion order
forIn_Insertion(data) == data
\* Enumeration order of `for (const key in data)`: integer-like keys in
\* ascending numeric order first, then the other keys in insertion order.
forIn(data) ==
  LET ids == {data[i].key.id : i \in {j \in 1..Len(data) : data[j].key.isIndex}}
      byId(id) == data[CHOOSE i \in 1..Len(data) :
                          data[i].key.isIndex /\ data[i].key.id = id]
      nums == ascending(ids)
      isName(e) == ~e.key.isIndex
  IN [i \in 1..Len(nums) |-> byId(nums[i])] \o SelectSeq(data, isName)

\* The text pushed for an affected entry (line 71): cve with its overview,
\* and the patched range.
Finding(vuln) == [cve |-> vuln.cve, patched |-> vuln.patched]

\* variant: the patched range is not consulted
isAffected_VulnerableOnly(currentVersion, vuln) ==
  satisfies(currentVersion, vuln.vulnerable)
\* the condition of lines 67-70
isAffected(currentVersion, vuln) ==
  /\ satisfies(currentVersion, vuln.vulnerable)
  /\ ~satisfies(currentVersion, vuln.patched)

\* getVulnerabilityList (lines 63-75)
getVulnerabilityList(currentVersion, data) ==
  LET order == forIn(data)
      RECURSIVE loop(_, _)
      loop(i, list) ==
        IF i > Len(order) THEN list
        ELSE loop(i + 1,
                  IF isAffected(currentVersion, order[i])
                  THEN Append(list, Finding(order[i]))
                  ELSE list)
  IN loop(1, << >>)

(* ------------------------- the release schedule ----------------------- *)
\* records of one answer of the release-schedule provider
MaxRecords == 2
Times == 0..MaxTime
\* A release record as far as isNodeEOL reads it: its `end`, if any.
Record(hasEnd, end) == [hasEnd |-> hasEnd, end |-> end]
Records == {Record(FALSE, 0)} \cup {Record(TRUE, t) : t \in Times}
\* What `await nv(version)` yields: a falsy value, or an array of records.
NoValue == [asked |-> TRUE, truthy |-> FALSE, recs |-> << >>]
NvAnswers ==
  {NoValue} \cup
  {[asked |-> TRUE, truthy |-> TRUE, recs |-> [i \in 1..n |-> r]] :
     n \in 0..MaxRecords, r \in Records}
\* nv(version) was not called
NotAsked == [asked |-> FALSE, truthy |-> FALSE, recs |-> << >>]

\* outcome of an async function: a value, or a thrown error
Return(v) == [threw |-> FALSE, err |-> "", value |-> v]
Throw(e) == [threw |-> TRUE, err |-> e, value |-> FALSE]

\* isNodeSupportedMajor (lines 122-126); supported is the set of majors of
\* nv(['supported']); parse() of an invalid string is null, and reading
\* .major of null throws a TypeError.
isNodeSupportedMajor(version, supported) ==
  IF ~version.valid THEN Throw("TypeError")
  ELSE Return(version.major \in supported)

\* variant: the end date itself already counts as past
isNodeEOL_AtOrAfter(myVersionInfo, t) ==
  IF ~myVersionInfo.truthy THEN Throw("Could not fetch version information")
  ELSE IF Len(myVersionInfo.recs) # 1
    THEN Throw("Did not get exactly one version record")
  ELSE IF ~myVersionInfo.recs[1].hasEnd THEN Return(TRUE)
  ELSE Return(t >= myVersionInfo.recs[1].end)
\* variant: the first record is used when there are several
isNodeEOL_FirstRecord(myVersionInfo, t) ==
  IF ~myVersionInfo.truthy THEN Throw("Could not fetch version information")
  ELSE IF Len(myVersionInfo.recs) = 0
    THEN Throw("Did not get exactly one version record")
  ELSE IF ~myVersionInfo.recs[1].hasEnd THEN Return(TRUE)
  ELSE Return(t > myVersionInfo.recs[1].end)
\* isNodeEOL (lines 132-148) on the provider's answer and the clock; an
\* end date and the clock are instants, as new Date() makes them
isNodeEOL(myVersionInfo, t) ==
  IF ~myVersionInfo.truthy THEN Throw("Could not fetch version information")
  ELSE IF Len(myVersionInfo.recs) # 1
    THEN Throw("Did not get exactly one version record")
  ELSE IF ~myVersionInfo.recs[1].hasEnd THEN Return(TRUE)
  ELSE Return(t > myVersionInfo.recs[1].end)

(* ------------------------------ the cache ----------------------------- *)
\* core.json on disk: absent, present but cut short, or a whole document
NoFile == [exists |-> FALSE, complete |-> FALSE, data |-> << >>]
Truncated == [exists |-> TRUE, complete |-> FALSE, data |-> << >>]
WholeFile(d) == [exists |-> TRUE, complete |-> TRUE, data |-> d]
\* the entry of require.cache for core.json
NotCached == [cached |-> FALSE, data |-> << >>]
Cached(d) == [cached |-> TRUE, data |-> d]

\* readLocal (lines 22-24): require() serves the module cache when the
\* file was loaded before in this process; otherwise it parses the file,
\* caching the parsed value, and throws on text that is not JSON.
readLocal(file, cache) ==
  IF cache.cached THEN [out |-> Return(TRUE), data |-> cache.data, cache |-> cache]
  ELSE IF file.complete
    THEN [out |-> Return(TRUE), data |-> file.data, cache |-> Cached(file.data)]
  ELSE [out |-> Throw("SyntaxError"), data |-> << >>, cache |-> cache]

\* variant: every call refreshes
needsRefresh_Always(last, etag, fileExists) == TRUE
\* variant: the existence of core.json is not checked
needsRefresh_NoFileCheck(last, etag, fileExists) ==
  last = 0 \/ last # etag
\* the condition of line 53: TRUE when getCoreIndex refreshes.  A token of
\* 0 stands for undefined (no token loaded).
needsRefresh(last, etag, fileExists) ==
  last = 0 \/ last # etag \/ ~fileExists

\* documents the remote publishes in the runs of the model
DocA == <<Entry(Key(TRUE, 2), "CVE-A", RangeA, RangeC),
          Entry(Key(TRUE, 1), "CVE-B", RangeB, MalformedRange)>>
DocB == <<Entry(Key(FALSE, 1), "CVE-A", RangeC, RangeA)>>
Docs == {DocA, DocB}
\* versions checked in the runs of the model
RunVersions == {Ver(1, 0, 0), Ver(1, 0, 1), Ver(MaxMajor, 0, 0)}

(* ------------------------------- state -------------------------------- *)
VARIABLES
  remote,         \* documents published so far; the token of remote[i] is i
  ETagFile,       \* .etag on disk: 0 when absent, else the token it holds
  coreLocalFile,  \* core.json on disk
  runs,           \* process invocations so far
  isCLI,          \* require.main === module
  argvR,          \* process.argv[2] === '-r'
  pc,             \* where the process is
  lastETagValue,  \* line 17; 0 is undefined
  requireCache,   \* require.cache entry of core.json
  call,           \* the entry point that is running or ran last
  calls,          \* calls of exported functions in this process
  currentVersion, \* the version argument of the call
  supported,      \* majors of the last nv(['supported']) answer
  nvInfo,         \* the last nv(version) answer
  now,            \* the clock read at line 145
  isSupported,    \* main, line 78
  isEOL,          \* main, line 79
  headersETag,    \* headers.etag of the HEAD answer of this call, 0 before
  statusCode,     \* status of the download answer of this call, 0 before
  body,           \* the document being streamed to core.json
  coreIndex,      \* what getCoreIndex returned to this call
  list,           \* the findings of this call
  result,         \* how the call ended
  message,        \* what the verdict flow printed
  exitCode,       \* -1 while the process runs
  probes,         \* HEAD requests issued by this call
  downloads,      \* body downloads issued by this call
  etag0,          \* ETagFile when this call began
  core0,          \* coreLocalFile when this call began
  prevProbed      \* headers.etag of the previous getCoreIndex of this process

vars == <<remote, ETagFile, coreLocalFile, runs, isCLI, argvR, pc, lastETagValue,
          requireCache, call, calls, currentVersion, supported, nvInfo, now,
          isSupported, isEOL, headersETag, statusCode, body, coreIndex, list,
          result, message, exitCode, probes, downloads, etag0, core0, prevProbed>>

disk == <<ETagFile, coreLocalFile>>
launch == <<runs, isCLI, argvR>>
classifier == <<supported, nvInfo, now, isSupported, isEOL>>
transfer == <<headersETag, statusCode, body>>
ghosts == <<probes, downloads, etag0, core0, prevProbed>>

NoIndex == [set |-> FALSE, data |-> << >>]
GotIndex(d) == [set |-> TRUE, data |-> d]
Pending == [done |-> FALSE, threw |-> FALSE, err |-> "", value |-> FALSE]
Ended(r) == [done |-> TRUE, threw |-> r.threw, err |-> r.err, value |-> r.value]

currentETag == Len(remote)
currentBody == remote[Len(remote)]

\* A process was launched and has not run a line yet.
Launched(cli, r, v) ==
  /\ isCLI = cli /\ argvR = r /\ pc = "load"
  /\ lastETagValue = 0 /\ requireCache = NotCached
  /\ call = "none" /\ calls = 0 /\ currentVersion = v
  /\ supported = {} /\ nvInfo = NotAsked /\ now = 0
  /\ isSupported = FALSE /\ isEOL = FALSE
  /\ headersETag = 0 /\ statusCode = 0 /\ body = << >>
  /\ coreIndex = NoIndex /\ list = << >>
  /\ result = Pending /\ message = "" /\ exitCode = -1
  /\ probes = 0 /\ downloads = 0 /\ prevProbed = 0

\* The cache files start absent, or as a finished refresh of the first
\* published document left them.
Init ==
  /\ \E d \in Docs : remote = <<d>>
  /\ \/ ETagFile = 0 /\ coreLocalFile = NoFile
     \/ ETagFile = 1 /\ coreLocalFile = WholeFile(remote[1])
  /\ runs = 1
  /\ \E cli \in BOOLEAN, r \in BOOLEAN, v \in RunVersions :
        Launched(cli, r, IF cli THEN v ELSE InvalidVersion)
  /\ etag0 = ETagFile /\ core0 = coreLocalFile

(* ------------------------------ start-up ------------------------------ *)
\* loadETag (lines 26-31): the new lastETagValue
loadETag(last, file) == IF file # 0 THEN file ELSE last

\* variant: the token is preloaded whatever the arguments are
startupETag_Always(r, last, file) == loadETag(last, file)
\* lines 156-158: the token is preloaded unless the first argument is -r
startupETag(r, last, file) == IF ~r THEN loadETag(last, file) ELSE last

\* Module load (lines 156-169): preload, then run main or export.
Load ==
  /\ pc = "load"
  /\ lastETagValue' = startupETag(argvR, lastETagValue, ETagFile)
  /\ IF isCLI THEN pc' = "main78" /\ call' = "main"
              ELSE pc' = "idle" /\ UNCHANGED call
  /\ UNCHANGED <<remote, disk, launch, requireCache, calls, currentVersion,
                 classifier, transfer, coreIndex, list, result, message,
                 exitCode, ghosts>>

(* --------------------------- how a call ends -------------------------- *)
\* How the runtime ends a process whose main() promise rejects with nobody
\* handling it (line 162): Node 15 and later exit with code 1, earlier
\* versions print a warning and end with code 0.
UnhandledRejectionExitCodes == {0, 1}

\* An error thrown inside main is an unhandled rejection, which ends the
\* process; thrown inside an exported function it rejects the promise the
\* caller holds.
Fail(err) ==
  /\ result' = Ended(Throw(err))
  /\ IF call = "main"
     THEN /\ pc' = "exited" /\ message' = "uncaught"
          /\ exitCode' \in UnhandledRejectionExitCodes
     ELSE pc' = "returned" /\ UNCHANGED <<exitCode, message>>

(* -------------------------- main, lines 77-98 ------------------------- *)
\* line 78
Main78 ==
  /\ pc = "main78"
  /\ \E S \in SUBSET Majors :
       LET r == isNodeSupportedMajor(currentVersion, S)
       IN /\ supported' = S
          /\ IF r.threw
             THEN Fail(r.err) /\ UNCHANGED isSupported
             ELSE /\ isSupported' = r.value /\ pc' = "main79"
                  /\ UNCHANGED <<result, exitCode, message>>
  /\ UNCHANGED <<remote, disk, launch, lastETagValue, requireCache, call, calls,
                 currentVersion, nvInfo, now, isEOL, transfer, coreIndex, list,
                 ghosts>>

\* The clock is read only when line 145 is reached.
ReadsClock(a) == a.truthy /\ Len(a.recs) = 1 /\ a.recs[1].hasEnd

\* line 79
Main79 ==
  /\ pc = "main79"
  /\ \E a \in NvAnswers, t \in Times :
       LET r == isNodeEOL(a, t)
       IN /\ (~ReadsClock(a) => t = 0)
          /\ nvInfo' = a /\ now' = t
          /\ IF r.threw
             THEN Fail(r.err) /\ UNCHANGED isEOL
             ELSE /\ isEOL' = r.value /\ pc' = "main80"
                  /\ UNCHANGED <<result, exitCode, message>>
  /\ supported' = {}
  /\ UNCHANGED <<remote, disk, launch, lastETagValue, requireCache, call, calls,
                 currentVersion, isSupported, transfer, coreIndex, list, ghosts>>

\* variant: the supported check comes first
verdict_SupportFirst(eol, sup) ==
  IF ~sup THEN "unsupported" ELSE IF eol THEN "eol" ELSE "continue"
\* variant: neither check ends the run
verdict_NoShortCircuit(eol, sup) == "continue"
\* the branch of lines 80-87
verdict(eol, sup) ==
  IF eol THEN "eol" ELSE IF ~sup THEN "unsupported" ELSE "continue"

\* lines 80-88: exit(1) on end-of-life or unsupported, else getCoreIndex()
Main80 ==
  /\ pc = "main80"
  /\ LET b == verdict(isEOL, isSupported)
     IN IF b = "continue"
        THEN /\ pc' = "gci52"
             /\ UNCHANGED <<message, exitCode>>
        ELSE /\ pc' = "exited" /\ message' = b /\ exitCode' = 1
  /\ nvInfo' = NotAsked /\ now' = 0
  /\ UNCHANGED supported
  /\ UNCHANGED <<remote, disk, launch, lastETagValue, requireCache, call, calls,
                 currentVersion, isSupported, isEOL, transfer, coreIndex, list,
                 result, ghosts>>

\* lines 89-97
Main89 ==
  /\ pc = "main89"
  /\ list' = getVulnerabilityList(currentVersion, coreIndex.data)
  /\ IF Len(list') > 0
     THEN message' = "vulnerable" /\ exitCode' = 1
     ELSE message' = "allGood" /\ exitCode' = 0
  /\ pc' = "exited"
  /\ result' = Ended(Return(Len(list') > 0))
  /\ UNCHANGED <<remote, disk, launch, lastETagValue, requireCache, call, calls,
                 currentVersion, classifier, transfer, coreIndex, ghosts>>

(* --------------------- getCoreIndex, lines 51-61 ---------------------- *)
\* where getCoreIndex's caller goes on
AfterIndex == IF call = "main" THEN "main89" ELSE "vuln152"

\* `return readLocal(coreLocalFile)` of lines 48 and 59
ReturnReadLocal ==
  LET r == readLocal(coreLocalFile, requireCache)
  IN /\ requireCache' = r.cache
     /\ IF r.out.threw
        THEN Fail(r.out.err) /\ UNCHANGED coreIndex
        ELSE /\ coreIndex' = GotIndex(r.data) /\ pc' = AfterIndex
             /\ UNCHANGED <<result, exitCode, message>>

\* variant: the token is not written to .etag
updateLastETag_MemoryOnly(etag) == [memory |-> etag, file |-> ETagFile]
\* variant: the token in memory is not updated
updateLastETag_FileOnly(etag) == [memory |-> lastETagValue, file |-> etag]
\* updateLastETag (lines 33-36): the token in memory and in .etag
updateLastETag(etag) == [memory |-> etag, file |-> etag]

\* line 52: the HEAD request is answered with the remote's current token
GetCoreIndexProbe ==
  /\ pc = "gci52"
  /\ headersETag' = currentETag
  /\ probes' = probes + 1
  /\ pc' = "gci53"
  /\ UNCHANGED <<remote, disk, launch, lastETagValue, requireCache, call, calls,
                 currentVersion, classifier, statusCode, body, coreIndex, list,
                 result, message, exitCode, downloads, etag0, core0, prevProbed>>

\* lines 53-56 with updateLastETag (lines 33-36): the token is stored in
\* memory and in .etag, then fetchCoreIndex issues the download
GetCoreIndexRefresh ==
  /\ pc = "gci53"
  /\ needsRefresh(lastETagValue, headersETag, coreLocalFile.exists)
  /\ lastETagValue' = updateLastETag(headersETag).memory
  /\ ETagFile' = updateLastETag(headersETag).file
  /\ downloads' = downloads + 1
  /\ pc' = "fci40"
  /\ UNCHANGED <<remote, coreLocalFile, launch, requireCache, call, calls,
                 currentVersion, classifier, transfer, coreIndex, list, result,
                 message, exitCode, probes, etag0, core0, prevProbed>>

\* lines 57-60: the persisted snapshot is reused
GetCoreIndexReuse ==
  /\ pc = "gci53"
  /\ ~needsRefresh(lastETagValue, headersETag, coreLocalFile.exists)
  /\ ReturnReadLocal
  /\ UNCHANGED <<remote, disk, launch, lastETagValue, call, calls,
                 currentVersion, classifier, transfer, list, ghosts>>

(* --------------------- fetchCoreIndex, lines 38-49 -------------------- *)
StatusCodes == {200, 404}
\* variant: the status is not looked at
onStatus_NeverAbort(sc) == "stream"
\* lines 41-45: what the factory callback does with the status
onStatus(sc) == IF sc # 200 THEN "abort" ELSE "stream"

\* Lines 40-47, the answer's status arrives.  On 200 the write stream
\* opens core.json with flag w, which empties it, and the body follows.
\* Otherwise the request is aborted and process.exit(1) runs on the next
\* tick; the write stream of line 46 was still created, and whether its
\* open has emptied the file before the exit is not determined.
FetchStatus ==
  /\ pc = "fci40"
  /\ \E sc \in StatusCodes :
       /\ statusCode' = sc
       /\ IF onStatus(sc) = "stream"
          THEN /\ coreLocalFile' = Truncated
               /\ body' = currentBody
               /\ pc' = "fci46"
               /\ UNCHANGED <<message, exitCode>>
          ELSE /\ coreLocalFile' \in {coreLocalFile, Truncated}
               /\ pc' = "exited" /\ exitCode' = 1
               /\ message' = "Request to Github failed"
               /\ UNCHANGED body
  /\ UNCHANGED <<remote, ETagFile, launch, lastETagValue, requireCache, call,
                 calls, currentVersion, classifier, headersETag, coreIndex, list,
                 result, ghosts>>

\* line 40, the stream ends: the whole body is in core.json
FetchStreamEnd ==
  /\ pc = "fci46"
  /\ coreLocalFile' = WholeFile(body)
  /\ pc' = "fci48"
  /\ UNCHANGED <<remote, ETagFile, launch, lastETagValue, requireCache, call,
                 calls, currentVersion, classifier, transfer, coreIndex, list,
                 result, message, exitCode, ghosts>>

\* line 48
FetchReadLocal ==
  /\ pc = "fci48"
  /\ ReturnReadLocal
  /\ UNCHANGED <<remote, disk, launch, lastETagValue, call, calls,
                 currentVersion, classifier, transfer, list, ghosts>>

(* ------------------------ the exported functions ---------------------- *)
ApiVersions == RunVersions \cup {InvalidVersion}

\* A caller of the module starts an exported function.
BeginCall(name, v) ==
  /\ pc = "idle"
  /\ calls < MaxCalls
  /\ calls' = calls + 1
  /\ call' = name
  /\ currentVersion' = v
  /\ etag0' = ETagFile /\ core0' = coreLocalFile
  /\ UNCHANGED <<remote, disk, launch, lastETagValue, requireCache,
                 isSupported, isEOL, transfer, coreIndex, list, message,
                 exitCode, probes, downloads, prevProbed>>

\* isNodeSupportedMajor(v), lines 122-126
CallIsNodeSupportedMajor ==
  \E v \in ApiVersions, S \in SUBSET Majors :
    /\ BeginCall("isNodeSupportedMajor", v)
    /\ supported' = S /\ UNCHANGED <<nvInfo, now>>
    /\ result' = Ended(isNodeSupportedMajor(v, S))
    /\ pc' = "returned"

\* isNodeEOL(v), lines 132-148
CallIsNodeEOL ==
  \E v \in ApiVersions, a \in NvAnswers, t \in Times :
    /\ BeginCall("isNodeEOL", v)
    /\ (~ReadsClock(a) => t = 0)
    /\ nvInfo' = a /\ now' = t /\ UNCHANGED supported
    /\ result' = Ended(isNodeEOL(a, t))
    /\ pc' = "returned"

\* isNodeVulnerable(v), line 151: getCoreIndex() is awaited
CallIsNodeVulnerable ==
  \E v \in ApiVersions :
    /\ BeginCall("isNodeVulnerable", v)
    /\ UNCHANGED <<supported, nvInfo, now, result>>
    /\ pc' = "gci52"

\* isNodeVulnerable, lines 152-153
\* lines 152-153: the answer of isNodeVulnerable for a version, given the
\* index that getCoreIndex returned
isNodeVulnerable(version, coreIndexData) ==
  Len(getVulnerabilityList(version, coreIndexData)) > 0

Vuln152 ==
  /\ pc = "vuln152"
  /\ list' = getVulnerabilityList(currentVersion, coreIndex.data)
  /\ result' = Ended(Return(isNodeVulnerable(currentVersion, coreIndex.data)))
  /\ pc' = "returned"
  /\ UNCHANGED <<remote, disk, launch, lastETagValue, requireCache, call, calls,
                 currentVersion, classifier, transfer, coreIndex, message,
                 exitCode, ghosts>>

\* The caller has the outcome of its call; the call's locals are gone.
CallerResumes ==
  /\ pc = "returned"
  /\ pc' = "idle"
  /\ call' = "none" /\ currentVersion' = InvalidVersion
  /\ supported' = {} /\ nvInfo' = NotAsked /\ now' = 0
  /\ prevProbed' = IF headersETag # 0 THEN headersETag ELSE prevProbed
  /\ headersETag' = 0 /\ statusCode' = 0 /\ body' = << >>
  /\ coreIndex' = NoIndex /\ list' = << >>
  /\ result' = Pending
  /\ probes' = 0 /\ downloads' = 0
  /\ UNCHANGED <<remote, disk, launch, lastETagValue, requireCache, calls,
                 isSupported, isEOL, message, exitCode, etag0, core0>>

(* --------------------------- the environment -------------------------- *)
\* The remote publishes another document under a new token.
RemoteUpdate ==
  /\ Len(remote) < MaxToken
  /\ \E d \in Docs \ {currentBody} : remote' = Append(remote, d)
  /\ UNCHANGED <<disk, launch, pc, lastETagValue, requireCache, call, calls,
                 currentVersion, classifier, transfer, coreIndex, list, result,
                 message, exitCode, ghosts>>

\* The process is over (exited, or its caller is done with it) and the
\* program is started again on the same cache files.
Restart ==
  /\ pc \in {"exited", "idle"}
  /\ runs < MaxRuns
  /\ runs' = runs + 1
  /\ \E cli \in BOOLEAN, r \in BOOLEAN, v \in RunVersions :
       /\ isCLI' = cli /\ argvR' = r /\ pc' = "load"
       /\ currentVersion' = IF cli THEN v ELSE InvalidVersion
  /\ lastETagValue' = 0 /\ requireCache' = NotCached
  /\ call' = "none" /\ calls' = 0
  /\ supported' = {} /\ nvInfo' = NotAsked /\ now' = 0
  /\ isSupported' = FALSE /\ isEOL' = FALSE
  /\ headersETag' = 0 /\ statusCode' = 0 /\ body' = << >>
  /\ coreIndex' = NoIndex /\ list' = << >>
  /\ result' = Pending /\ message' = "" /\ exitCode' = -1
  /\ probes' = 0 /\ downloads' = 0 /\ prevProbed' = 0
  /\ etag0' = ETagFile /\ core0' = coreLocalFile
  /\ UNCHANGED <<remote, disk>>

Next ==
  \/ Load
  \/ Main78
  \/ Main79
  \/ Main80
  \/ Main89
  \/ GetCoreIndexProbe
  \/ GetCoreIndexRefresh
  \/ GetCoreIndexReuse
  \/ FetchStatus
  \/ FetchStreamEnd
  \/ FetchReadLocal
  \/ CallIsNodeSupportedMajor
  \/ CallIsNodeEOL
  \/ CallIsNodeVulnerable
  \/ Vuln152
  \/ CallerResumes
  \/ RemoteUpdate
  \/ Restart

Spec == Init /\ [][Next]_vars

(* ------------- getVulnerabilityList on its own, lines 63-75 ----------- *)
\* The function is given any version and any index document.
InitList ==
  /\ remote = <<DocA>>
  /\ ETagFile = 0 /\ coreLocalFile = NoFile
  /\ runs = 1
  /\ isCLI = FALSE /\ argvR = FALSE /\ pc = "list63"
  /\ lastETagValue = 0 /\ requireCache = NotCached
  /\ call = "getVulnerabilityList" /\ calls = 0
  /\ currentVersion \in Versions
  /\ supported = {} /\ nvInfo = NotAsked /\ now = 0
  /\ isSupported = FALSE /\ isEOL = FALSE
  /\ headersETag = 0 /\ statusCode = 0 /\ body = << >>
  /\ \E d \in Indexes : coreIndex = GotIndex(d)
  /\ list = << >>
  /\ result = Pending /\ message = "" /\ exitCode = -1
  /\ probes = 0 /\ downloads = 0 /\ prevProbed = 0
  /\ etag0 = ETagFile /\ core0 = coreLocalFile

\* lines 64-74
ListReturn ==
  /\ pc = "list63"
  /\ list' = getVulnerabilityList(currentVersion, coreIndex.data)
  /\ pc' = "list74"
  /\ UNCHANGED <<remote, disk, launch, lastETagValue, requireCache, call, calls,
                 currentVersion, classifier, transfer, coreIndex, result,
                 message, exitCode, ghosts>>

NextList == ListReturn

SpecList == InitList /\ [][NextList]_vars

(* ------------------------------- claims ------------------------------- *)
Occurrences(seq, x) == Cardinality({i \in 1..Len(seq) : seq[i] = x})
InsideNotPatched(v, e) == satisfies(v, e.vulnerable) /\ ~satisfies(v, e.patched)

\* C1: getVulnerabilityList(v, index) holds exactly one finding for every
\* entry whose vulnerable range v satisfies and whose patched range v does
\* not satisfy, and no finding for any other entry.
C1_FindingsAreTheAffectedEntries ==
  pc = "list74" =>
    LET data == coreIndex.data
        hit == {i \in 1..Len(data) : InsideNotPatched(currentVersion, data[i])}
    IN /\ Len(list) = Cardinality(hit)
       /\ \A e \in Entries :
            Occurrences(list, Finding(e)) =
              Cardinality({i \in hit : Finding(data[i]) = Finding(e)})

\* a version inside one entry's vulnerable range that its patched range
\* covers, next to an entry that is reported
C1_Witness ==
  /\ pc = "list74"
  /\ Len(coreIndex.data) = 2
  /\ Len(list) = 1
  /\ \E i \in 1..2 : /\ satisfies(currentVersion, coreIndex.data[i].vulnerable)
                      /\ satisfies(currentVersion, coreIndex.data[i].patched)

\* C2: getCoreIndex reuses the snapshot without a download only if a token
\* is in memory, it equals the probed token and core.json exists; in every
\* other case it writes the token and issues the download.
C2_ReusePolicy ==
  [][(pc = "gci53" /\ pc' # "gci53") =>
       IF lastETagValue # 0 /\ lastETagValue = headersETag /\ coreLocalFile.exists
       THEN downloads' = downloads /\ pc' # "fci40" /\ UNCHANGED disk
       ELSE /\ downloads' = downloads + 1 /\ pc' = "fci40"
            /\ ETagFile' = headersETag /\ lastETagValue' = headersETag]_vars

\* the token in memory and on disk equals the probed one, core.json is
\* missing, and the download was issued
C2_Witness ==
  /\ pc = "fci40"
  /\ ~argvR /\ calls <= 1
  /\ etag0 = headersETag
  /\ ~core0.exists /\ ~coreLocalFile.exists
  /\ downloads = 1

\* C3: in main, an end-of-life version is blocked with the end-of-life
\* message whether or not its major is supported, and neither the HEAD
\* probe nor the download is issued in that run.
C3_EndOfLifeShortCircuits ==
  (call = "main" /\ isEOL) =>
     /\ probes = 0 /\ downloads = 0
     /\ \/ pc = "main80"
        \/ pc = "exited" /\ message = "eol" /\ exitCode = 1

C3_Witness ==
  call = "main" /\ isEOL /\ isSupported /\ pc = "exited" /\ message = "eol"

\* C4: in main, a version that is not end-of-life and whose major is not
\* supported is blocked with the unsupported message, and the index is
\* neither probed nor downloaded in that run.
C4_UnsupportedShortCircuits ==
  (/\ call = "main" /\ pc \notin {"load", "main78", "main79", "main80"}
   /\ ~result.threw /\ ~isEOL /\ ~isSupported) =>
     /\ pc = "exited" /\ message = "unsupported" /\ exitCode = 1
     /\ probes = 0 /\ downloads = 0

C4_Witness ==
  /\ call = "main" /\ pc = "exited" /\ message = "unsupported"
  /\ ~isEOL /\ ~isSupported /\ ~result.threw

\* what the claim calls blocked
Blocked == isEOL \/ ~isSupported \/ Len(list) > 0
VerdictReached == message \in {"eol", "unsupported", "vulnerable", "allGood"}

\* main got past lines 78-87 with both answers
Classified ==
  call = "main" /\ pc \notin {"load", "main78", "main79", "main80"} /\ ~nvInfo.asked

\* C5 as stated: the command-line run ends with exit code 0 if and only if
\* the version is not blocked, and every blocked run ends with code 1
\* (here for the runs whose classification succeeded).
C5_ExitCodeIffNotBlocked ==
  (Classified /\ pc = "exited") =>
     /\ exitCode = 0 <=> ~Blocked
     /\ Blocked => exitCode = 1

\* C5 amended: a command-line run that reaches a verdict ends with exit
\* code 0 if and only if the version is not blocked, and with exit code 1
\* when it is blocked; a run whose download is answered with a status
\* other than 200 reaches no verdict and ends with exit code 1 as well.
C5_ExitCodeOfVerdict ==
  (call = "main" /\ pc = "exited") =>
     /\ VerdictReached => (exitCode = 0 <=> ~Blocked)
     /\ (VerdictReached /\ Blocked) => exitCode = 1
     /\ statusCode \notin {0, 200} => (~VerdictReached /\ exitCode = 1)

\* a run that is not blocked and ends with 1 because the download failed
C5_Witness ==
  /\ call = "main" /\ pc = "exited"
  /\ ~Blocked /\ statusCode = 404 /\ exitCode = 1

\* C6: a second getCoreIndex of one process whose probe yields the same
\* token as the previous one issues the HEAD probe only, no download.
C6_SecondGetDoesNotDownload ==
  (/\ call = "isNodeVulnerable" /\ prevProbed # 0
   /\ headersETag = prevProbed) =>
     probes = 1 /\ downloads = 0

\* the second call returned an index after a first call that downloaded
C6_Witness ==
  /\ call = "isNodeVulnerable" /\ pc = "returned" /\ calls = 2
  /\ prevProbed # 0 /\ headersETag = prevProbed
  /\ coreIndex.set /\ probes = 1 /\ downloads = 0
  /\ argvR /\ lastETagValue = headersETag

\* C7 as stated: every getCoreIndex that returns, returns the content of
\* core.json at the moment of return.
C7_ReturnsPersistedSnapshot ==
  pc \in {"main89", "vuln152"} =>
     /\ coreIndex.set
     /\ coreLocalFile.complete
     /\ coreIndex.data = coreLocalFile.data

\* C8: a download answered with a status other than 200 ends the process
\* with exit code 1; getCoreIndex returns no index in that call, so no
\* stale or partial snapshot is served.
C8_FailedDownloadIsFatal ==
  statusCode \notin {0, 200} =>
     /\ pc = "exited" /\ exitCode = 1
     /\ ~coreIndex.set /\ list = << >> /\ ~result.done

\* the download failed while an earlier snapshot was on disk
C8_Witness ==
  /\ statusCode = 404 /\ pc = "exited"
  /\ core0.complete /\ coreLocalFile.exists

\* C9 as stated: a get() that reuses the cache and a refresh whose
\* download fails both leave .etag and core.json as they were.
C9_CacheChangedOnlyBySuccessfulRefresh ==
  /\ (pc \in {"main89", "vuln152"} /\ downloads = 0) =>
        ETagFile = etag0 /\ coreLocalFile = core0
  /\ statusCode \notin {0, 200} =>
        ETagFile = etag0 /\ coreLocalFile = core0

\* C10 as stated: when the provider has no record for the version, the
\* EOL check fails with "Could not fetch version information", and main
\* issues no probe and no download.
C10_NoRecordIsLookupError ==
  (nvInfo.asked /\ (~nvInfo.truthy \/ Len(nvInfo.recs) = 0)) =>
     /\ result.done /\ result.threw
     /\ result.err = "Could not fetch version information"
     /\ call = "main" => (pc = "exited" /\ probes = 0 /\ downloads = 0)

C12_InvalidVersionIsAnError ==
  (/\ call \in {"isNodeVulnerable", "isNodeSupportedMajor"}
   /\ ~currentVersion.valid
   /\ result.done) => result.threw

\* C13: for a valid version, a list of findings is returned only when no
\* entry of the index has a malformed vulnerable or patched range; with
\* such an entry the computation is aborted by an error instead.
C13_MalformedRangeAborts ==
  (pc = "list74" /\ currentVersion.valid) =>
     \A i \in 1..Len(coreIndex.data) :
        coreIndex.data[i].vulnerable.ok /\ coreIndex.data[i].patched.ok

\* C14: isNodeVulnerable(v) is true exactly when the verdict for v is
\* blocked; in particular, for a version that main blocks as end-of-life or
\* as an unsupported major, isNodeVulnerable answers true on the index the
\* remote serves.
C14_TrueWhenVerdictBlocked ==
  (call = "main" /\ pc = "exited" /\ message \in {"eol", "unsupported"}) =>
     isNodeVulnerable(currentVersion, currentBody)

\* the first getCoreIndex of the process has decided between refresh and reuse
FirstGetDecided ==
  /\ call \in {"main", "isNodeVulnerable"}
  /\ prevProbed = 0 /\ headersETag # 0 /\ pc # "gci53"

\* C15: started with -r, the token is not preloaded, so the first
\* getCoreIndex of the process refreshes (writes the token and downloads)
\* even when .etag holds the probed token and core.json exists; started
\* without -r and with .etag present, the token is in memory before the
\* first getCoreIndex.
C15_RefreshModeSkipsPreload ==
  /\ (argvR /\ FirstGetDecided) => (downloads = 1 /\ ETagFile = headersETag)
  /\ (argvR /\ prevProbed = 0 /\ headersETag = 0) => lastETagValue = 0
  /\ (~argvR /\ pc # "load" /\ prevProbed = 0 /\ headersETag = 0
        /\ ETagFile # 0) => lastETagValue = ETagFile

\* started with -r on a cache that is present and fresh, and downloading
C15_Witness ==
  /\ argvR /\ FirstGetDecided
  /\ etag0 = headersETag /\ core0.exists /\ core0.complete
  /\ downloads = 1 /\ lastETagValue = headersETag

\* C16: when the provider returns more than one record for the queried
\* version, the end-of-life check fails with the "Did not get exactly one
\* version record" error and yields no boolean.
C16_SeveralRecordsIsAnError ==
  (nvInfo.asked /\ nvInfo.truthy /\ Len(nvInfo.recs) > 1) =>
     /\ result.done /\ result.threw
     /\ result.err = "Did not get exactly one version record"
     /\ call = "main" => (pc = "exited" /\ ~VerdictReached)
     /\ call # "main" => (call = "isNodeEOL" /\ pc = "returned")

\* isNodeEOL was answered with two records, the first one without end date
C16_Witness ==
  /\ call = "isNodeEOL" /\ pc = "returned"
  /\ nvInfo.truthy /\ Len(nvInfo.recs) = 2 /\ ~nvInfo.recs[1].hasEnd
  /\ result.done /\ result.threw

\* the affected entries of the index, as positions of the document
Hits == {i \in 1..Len(coreIndex.data) :
           InsideNotPatched(currentVersion, coreIndex.data[i])}
isHit(vuln) == InsideNotPatched(currentVersion, vuln)

Place(i) ==
  LET e == coreIndex.data[i]
      top == 1 + (CHOOSE m \in {k.id : k \in Keys} : \A k \in Keys : k.id <= m)
  IN IF e.key.isIndex THEN e.key.id ELSE top + i

C18_StepsInOrder ==
  /\ [](call \in {"main", "isNodeVulnerable"} =>
          /\ probes <= 1 /\ downloads <= probes
          /\ probes = 1 <=> headersETag # 0
          /\ downloads = 1 =>
                (ETagFile = headersETag /\ lastETagValue = headersETag)
          /\ pc \in {"fci40", "fci46"} => (downloads = 1 /\ ~coreIndex.set)
          /\ (coreIndex.set /\ downloads = 1) =>
                (statusCode = 200 /\ coreLocalFile = WholeFile(body)))
  /\ [][/\ downloads' > downloads =>
             /\ pc = "gci53" /\ probes = 1 /\ headersETag # 0
             /\ ~(/\ lastETagValue # 0 /\ lastETagValue = headersETag
                   /\ coreLocalFile.exists)
             /\ ETagFile' = headersETag
             /\ statusCode' = 0 /\ coreLocalFile' = coreLocalFile
        /\ (ETagFile' # ETagFile) => downloads' = downloads + 1
        /\ (coreIndex'.set /\ ~coreIndex.set /\ downloads = 1) =>
             (pc = "fci48" /\ coreLocalFile.complete)]_vars

\* a refresh ran to its end: probe, token, download, read back
C18_Witness ==
  /\ call = "isNodeVulnerable" /\ pc = "vuln152"
  /\ probes = 1 /\ downloads = 1 /\ statusCode = 200
  /\ etag0 # headersETag /\ ETagFile = headersETag
  /\ coreIndex.set /\ coreIndex.data = body

\* C19: over any sequence of processes sharing .etag and core.json, failed
\* downloads included, whenever getCoreIndex reuses core.json without a
\* download, core.json is the whole body the remote served under the
\* token in .etag.
C19_ReusedSnapshotMatchesToken ==
  (/\ call \in {"main", "isNodeVulnerable"}
   /\ probes = 1 /\ downloads = 0 /\ pc # "gci53") =>
     coreLocalFile = WholeFile(remote[ETagFile])

\* C20: within one process, nobody else writing the cache files: after
\* every getCoreIndex that returns, the token in memory, the content of
\* .etag and the token of that call's probe are equal; and whenever a
\* token is in memory it equals the content of .etag.
C20_TokensAgree ==
  /\ lastETagValue # 0 => lastETagValue = ETagFile
  /\ (coreIndex.set /\ probes = 1) =>
        (lastETagValue = headersETag /\ ETagFile = headersETag)

\* the second call of a process found a new token and refreshed
C20_Witness ==
  /\ call = "isNodeVulnerable" /\ pc = "vuln152" /\ calls = 2
  /\ prevProbed # 0 /\ prevProbed # headersETag
  /\ coreIndex.set /\ probes = 1 /\ downloads = 1
  /\ lastETagValue = headersETag /\ ETagFile = headersETag

====
